---- MODULE Spec2Model ----
(***************************************************************************)
(* Connection and session management layer of zwave-js-server              *)
(* (src/src/lib/server.ts): the Client session, the ClientsController      *)
(* registry with its heartbeat timer and coalesced cleanup, and the event  *)
(* and logging forwarders it owns.                                         *)
(*                                                                         *)
(* JavaScript runs every callback to completion, so each action below is   *)
(* one callback (a socket event, a timer, an awaited handler resuming, or  *)
(* a public method call) with all the calls it makes.                      *)
(*                                                                         *)
(* sent[c] is the sequence of socket.send calls made on client c's socket  *)
(* by Client.sendData, in call order.                                      *)
(***************************************************************************)
EXTENDS Integers, Sequences, FiniteSets, TLC

\* ----------------------------------------------------------------- bounds
\* Sockets the websocket server may accept over a run.
MaxClients == 2
\* Frames the clients send over a run (each frame that carries a messageId
\* carries a fresh one).
MaxRequests == 2
\* Domain events the driver publishes over a run.
MaxEvents == 2

\* Calls of start() that get past the readiness check over a run.
MaxStarts == 2
\* Hard reset requests over a run.
MaxResets == 1
\* Calls of destroy() the host makes over a run.
MaxDestroys == 1
\* checkAlive calls per session
MaxProbes == 2

\* ------------------------------------------------------ program constants
\* Imported from ./const (server.ts lines 18-24); the range is kept small.
minSchemaVersion == 1
maxSchemaVersion == 2

Sockets == 1 .. MaxClients
\* Schema versions a client may ask for: the range and one value on each side.
RequestedVersions == (minSchemaVersion - 1) .. (maxSchemaVersion + 1)
\* Log configurations of the driver (only their identity matters).
LogConfigs == {"info", "debug"}
\* msg.messageId of a frame that parsed to something without a messageId.
NoMessageId == 0

VARIABLES
    readyState,        \* socket.readyState of each socket ("NONE": not accepted yet)
    clients,           \* ClientsController.clients, in array order
    schemaVersion,     \* Client.schemaVersion
    receiveEvents,     \* Client.receiveEvents
    receiveLogs,       \* Client.receiveLogs
    outstandingPing,   \* Client._outstandingPing
    userAgent,         \* Client.additionalUserAgentComponents
    sent,              \* socket.send calls per socket
    pings,             \* socket.ping calls per socket
    awaiting,          \* receiveMessage calls suspended at `await handler(msg)`
    pingInterval,      \* ClientsController.pingInterval !== undefined
    intervalTimers,    \* setInterval timers of the ClientsController not cleared
    eventForwarder,    \* ClientsController.eventForwarder !== undefined
    eventSubscriptions,\* started subscriptions to the driver's event stream
    cleanupScheduled,  \* ClientsController.cleanupScheduled
    cleanupTimers,     \* setTimeout(cleanupClients, 0) callbacks not yet run
    loggingEventForwarder, \* ClientsController.loggingEventForwarder !== undefined
    started,           \* LoggingEventForwarder.started
    forwarderLogConfig,\* log configuration the running forwarder was started with
    driverLogConfig,   \* the driver's current log configuration
    published,         \* domain events published so far
    frames,            \* frames received so far
    accepted,          \* requests that parsed and carry a messageId: [client, messageId]
    listenFrom,        \* published, when the client's receiveEvents became true
    unhandledRejection,\* a receiveMessage promise rejected
    gateway,           \* the ZwavejsServer: its fields and the objects it created
    driver             \* the shared controller: readiness, hard resets, "driver ready"

vars == <<readyState, clients, schemaVersion, receiveEvents, receiveLogs,
          outstandingPing, userAgent, sent, pings, awaiting, pingInterval, intervalTimers,
          eventForwarder, eventSubscriptions, cleanupScheduled, cleanupTimers,
          loggingEventForwarder, started, forwarderLogConfig, driverLogConfig,
          published, frames, accepted, listenFrom, unhandledRejection,
          gateway, driver>>

clientVars == <<schemaVersion, receiveEvents, receiveLogs, outstandingPing,
                userAgent, listenFrom>>
loggingVars == <<loggingEventForwarder, started, forwarderLogConfig, driverLogConfig>>
timerVars == <<pingInterval, intervalTimers, cleanupScheduled, cleanupTimers>>
eventVars == <<eventForwarder, eventSubscriptions, published>>
requestVars == <<awaiting, frames, accepted, unhandledRejection>>
gatewayVars == <<gateway, driver>>

\* --------------------------------------------------------------- helpers
Range(s) == {s[i] : i \in 1 .. Len(s)}

\* get isConnected(): socket.readyState === socket.OPEN
isConnected(c) == readyState[c] = "OPEN"

\* WebSocket.close(): an open socket starts its closing handshake; a socket
\* that is closing or closed is left as it is.
SocketClose(rs) == IF rs = "OPEN" THEN "CLOSING" ELSE rs

\* Client.disconnect(): this.socket.close()
ClientDisconnect(rs, c) == [rs EXCEPT ![c] = SocketClose(@)]

\* ------------------------------------------------------ outgoing messages
\* One shape for every outgoing message; a field the message does not carry
\* is "", 0 or {}. args is the JSON object of an error result, as the set of
\* its <<key, value>> pairs.
Message(type, messageId, success, errorCode, result, event) ==
    [type |-> type, messageId |-> messageId, success |-> success,
     errorCode |-> errorCode, result |-> result, event |-> event,
     args |-> {}, zwaveErrorCode |-> "", zwaveErrorMessage |-> ""]

\* Client.sendData: this.socket.send(JSON.stringify(data), { compress })
sendData(snt, c, data) == [snt EXCEPT ![c] = Append(@, data)]

\* Client.sendVersion
sendVersion(snt, c) == sendData(snt, c, Message("version", NoMessageId, TRUE, "", "", 0))

\* Client.sendResultSuccess
sendResultSuccess(snt, c, messageId, result) ==
    sendData(snt, c, Message("result", messageId, TRUE, "", result, 0))

\* Client.sendResultError
sendResultError(snt, c, messageId, errorCode, args) ==
    sendData(snt, c, [Message("result", messageId, FALSE, errorCode, "", 0)
                          EXCEPT !.args = args])

\* Client.sendResultZWaveError
sendResultZWaveError(snt, c, messageId, zjsErrorCode, message) ==
    sendData(snt, c, [Message("result", messageId, FALSE, "zwaveError", "", 0)
                          EXCEPT !.zwaveErrorCode = zjsErrorCode,
                                 !.zwaveErrorMessage = message])

\* Client.sendEvent
sendEvent(snt, c, event) == sendData(snt, c, Message("event", NoMessageId, TRUE, "", "", event))

\* ----------------------------------------------------------------- errors
\* What a call threw: its class (what instanceof tells) and its properties
\* as the set of their <<key, value>> pairs. Class "none": it returned.
NoError == [class |-> "none", props |-> {}]
\* error.ts: SchemaIncompatibleError and UnknownCommandError extend BaseError
\* and carry the refused version and the refused command.
SchemaIncompatibleError ==
    [class |-> "BaseError",
     props |-> {<<"errorCode", "schemaIncompatible">>, <<"schemaId", "requested">>,
                <<"name", "Error">>, <<"message", "">>, <<"stack", "trace">>}]
UnknownCommandError ==
    [class |-> "BaseError",
     props |-> {<<"errorCode", "unknownCommand">>, <<"command", "given">>,
                <<"name", "Error">>, <<"message", "">>, <<"stack", "trace">>}]
\* A BaseError thrown by a handler family, with one extra field.
HandlerBaseError ==
    [class |-> "BaseError",
     props |-> {<<"errorCode", "handlerError">>, <<"nodeId", "7">>,
                <<"name", "Error">>, <<"message", "text">>, <<"stack", "trace">>}]
ZWaveError ==
    [class |-> "ZWaveError",
     props |-> {<<"code", "zwaveCode">>, <<"message", "zwaveMessage">>,
                <<"name", "ZWaveError">>, <<"stack", "trace">>}]
\* Anything else that can be thrown, a TypeError for instance.
OtherError ==
    [class |-> "Error",
     props |-> {<<"name", "TypeError">>, <<"message", "text">>, <<"stack", "trace">>}]

\* err[key], "undefined" when err has no such property.
prop(err, key) ==
    IF \E p \in err.props : p[1] = key
    THEN (CHOOSE p \in err.props : p[1] = key)[2]
    ELSE "undefined"

\* const { errorCode, name, message, stack, ...args } = err: what is left
\* in args.
rest(err) == {p \in err.props : p[1] \notin {"errorCode", "name", "message", "stack"}}

\* The catch block with its last branch missing: an unclassified failure
\* is logged and nothing is sent.
catchWithoutFallback(snt, c, messageId, err) ==
    IF err.class = "BaseError"
    THEN sendResultError(snt, c, messageId, prop(err, "errorCode"), rest(err))
    ELSE IF err.class = "ZWaveError"
    THEN sendResultZWaveError(snt, c, messageId, prop(err, "code"), prop(err, "message"))
    ELSE snt

\* The catch block sending the whole error object of a BaseError as args
\* and the message of a ZWaveError in place of its code.
catchUnstripped(snt, c, messageId, err) ==
    IF err.class = "BaseError"
    THEN sendResultError(snt, c, messageId, prop(err, "errorCode"), err.props)
    ELSE IF err.class = "ZWaveError"
    THEN sendResultZWaveError(snt, c, messageId, prop(err, "message"), prop(err, "message"))
    ELSE sendResultError(snt, c, messageId, "unknownError", {})

\* The catch block of Client.receiveMessage.
catch(snt, c, messageId, err) ==
    IF err.class = "BaseError"
    THEN sendResultError(snt, c, messageId, prop(err, "errorCode"), rest(err))
    ELSE IF err.class = "ZWaveError"
    THEN sendResultZWaveError(snt, c, messageId, prop(err, "code"), prop(err, "message"))
    ELSE sendResultError(snt, c, messageId, "unknownError", {})

\* setSchemaVersion with the upper bound left unchecked.
setSchemaVersionNoUpperBound(v) ==
    [stored |-> v,
     thrown |-> IF v < minSchemaVersion THEN SchemaIncompatibleError ELSE NoError]

\* Client.setSchemaVersion: the value is stored, then checked.
setSchemaVersion(v) ==
    [stored |-> v,
     thrown |-> IF v < minSchemaVersion \/ v > maxSchemaVersion
                THEN SchemaIncompatibleError ELSE NoError]

\* -------------------------------------------------------------- commands
\* A command string is the sequence of its dot-free pieces and its dots:
\* "node.getState" is <<"node", ".", "getState">>.
initialize == <<"initialize">>
setApiSchema == <<"setApiSchema">>
startListening == <<"startListening">>
updateLogConfig == <<"updateLogConfig">>
getLogConfig == <<"getLogConfig">>
driverStartListeningLogs == <<"driver", ".", "startListeningLogs">>
driverStopListeningLogs == <<"driver", ".", "stopListeningLogs">>
driverUpdateLogConfig == <<"driver", ".", "updateLogConfig">>

\* The five commands receiveMessage handles itself.
BuiltIn == {initialize, setApiSchema, startListening, updateLogConfig, getLogConfig}

\* enum Instance (instance.ts), the keys of Client.instanceHandlers.
Instance == {"controller", "driver", "node", "multicast_group",
             "broadcast_node", "endpoint", "utils"}
\* instanceHandlers is a plain object: a key of Object.prototype is found on
\* it too, and is truthy.
InheritedKeys == {"toString"}

\* The text after the last "." instead of the text before the first.
split0TakesLast(command) ==
    IF command = <<>> \/ command[Len(command)] = "." THEN "" ELSE command[Len(command)]

\* msg.command.split(".")[0]
split0(command) == IF command = <<>> \/ Head(command) = "." THEN "" ELSE Head(command)

\* this.instanceHandlers[instance]
instanceHandlers(instance) ==
    IF instance \in Instance THEN "handler"
    ELSE IF instance \in InheritedKeys THEN "inherited"
    ELSE "undefined"

\* The command strings clients send in this model.
Commands == {initialize, setApiSchema, startListening, updateLogConfig, getLogConfig,
             driverStartListeningLogs, driverStopListeningLogs, driverUpdateLogConfig,
             <<"node", ".", "getState">>, <<"bogus", ".", "doThing">>, <<"toString">>}

\* The branch of receiveMessage a parsed message takes, in the order of the code.
\* hasCommand is FALSE when msg.command is undefined.
Branch(hasCommand, command) ==
    IF ~hasCommand THEN "typeError"
    ELSE IF command = initialize THEN "initialize"
    ELSE IF command = setApiSchema THEN "setApiSchema"
    ELSE IF command = startListening THEN "startListening"
    ELSE IF command = updateLogConfig THEN "updateLogConfig"
    ELSE IF command = getLogConfig THEN "getLogConfig"
    ELSE IF instanceHandlers(split0(command)) # "undefined" THEN "instance"
    ELSE "unknownCommand"

\* ---------------------------------------------------- Logging Forwarder
\* The forwarder's state as the operators below pass it along.
Logging(exists, isStarted, config) ==
    [exists |-> exists, started |-> isStarted, config |-> config]

\* LoggingEventForwarder.start: subscribes with the driver's current log
\* configuration.
LoggingStart(lg, driverConfig) == [lg EXCEPT !.started = TRUE, !.config = driverConfig]

\* LoggingEventForwarder.stop: frees the subscription.
LoggingStop(lg) == [lg EXCEPT !.started = FALSE, !.config = "none"]

\* LoggingEventForwarder.restartIfNeeded: re-applies the configuration when
\* the driver's log configuration is no longer the one subscribed with.
LoggingRestartIfNeeded(lg, driverConfig) ==
    IF lg.started /\ lg.config # driverConfig
    THEN LoggingStart(LoggingStop(lg), driverConfig)
    ELSE lg

\* get loggingEventForwarderStarted(): this.loggingEventForwarder?.started === true
loggingEventForwarderStarted(lg) == lg.exists /\ lg.started

\* ClientsController.restartLoggingEventForwarderIfNeeded
restartLoggingEventForwarderIfNeeded(lg, driverConfig) ==
    IF lg.exists THEN LoggingRestartIfNeeded(lg, driverConfig) ELSE lg

\* ClientsController.configureLoggingEventForwarder
configureLoggingEventForwarder(lg, driverConfig) ==
    LET created == [lg EXCEPT !.exists = TRUE]
    IN IF ~loggingEventForwarderStarted(created)
       THEN LoggingStart(created, driverConfig)
       ELSE created

\* ClientsController.cleanupLoggingEventForwarder
cleanupLoggingEventForwarder(lg, cls, rl) ==
    IF Len(SelectSeq(cls, LAMBDA cl : rl[cl])) = 0 /\ loggingEventForwarderStarted(lg)
    THEN LoggingStop(lg)
    ELSE lg

CurrentLogging == Logging(loggingEventForwarder, started, forwarderLogConfig)

SetLogging(lg) ==
    /\ loggingEventForwarder' = lg.exists
    /\ started' = lg.started
    /\ forwarderLogConfig' = lg.config

\* ------------------------------------------------------- Event Forwarder
\* EventForwarder.forwardEvent: the event goes to every session of the
\* registry with receiveEvents = true, in registry order.
RECURSIVE forwardEvent(_, _, _, _)
forwardEvent(snt, cls, re, event) ==
    IF cls = <<>> THEN snt
    ELSE forwardEvent(IF re[Head(cls)] THEN sendEvent(snt, Head(cls), event) ELSE snt,
                      Tail(cls), re, event)

\* One delivery per started subscription to the driver's event stream.
RECURSIVE deliver(_, _, _, _, _)
deliver(n, snt, cls, re, event) ==
    IF n = 0 THEN snt ELSE deliver(n - 1, forwardEvent(snt, cls, re, event), cls, re, event)

\* ------------------------------------------------------- ZwavejsServer
\* Each call of start() that gets past the readiness check creates one http
\* server, one websocket server on it and one ClientsController; the three
\* share the call's number. 0 stands for a field that is undefined.
Ids == 1 .. MaxStarts
Undefined == 0

\* The gateway before start(): no field set, no object created.
\*   server, wsServer, sockets   this.server, this.wsServer, this.sockets
\*   responder, service          this.responder, this.service are set
\*   handle      per http server: "none", "binding" (listen() called, the
\*               port not bound yet), "listening", "failed" (the bind
\*               failed), "released" (close() freed the port)
\*   closeEvent  per http server: its "close" event is "no"t due, "pending"
\*               or "emitted"
\*   ws          per websocket server: "none", "open", "closing", "closed"
\*   connections per socket: the websocket server that accepted it
\*   managers    per socket: the ClientsController it was added to
\*   restarts    the start() calls made by a "driver ready" listener
\*   starting    start() calls suspended at `await once(server, "listening")`
\*   destroying  destroy() calls suspended at an await, in call order
\*   emitted     the notifications the gateway emitted, in order
\*   faults      failures that left the gateway: rejected start() and
\*               destroy() calls, exceptions no one catches
\*   overwritten the ClientsControllers this.sockets referred to when
\*               start() assigned a new one
NewGateway(destroyOnReset, dnssd) ==
    [destroyServerOnHardReset |-> destroyOnReset,
     enableDNSServiceDiscovery |-> dnssd,
     server |-> Undefined, wsServer |-> Undefined, sockets |-> Undefined,
     responder |-> FALSE, service |-> FALSE,
     handle |-> [n \in Ids |-> "none"],
     closeEvent |-> [n \in Ids |-> "no"],
     ws |-> [n \in Ids |-> "none"],
     connections |-> [c \in Sockets |-> Undefined],
     managers |-> [c \in Sockets |-> Undefined],
     starts |-> 0, destroys |-> 0,
     restarts |-> {},
     starting |-> {},
     destroying |-> <<>>,
     emitted |-> <<>>,
     faults |-> {},
     overwritten |-> {}]

\* The driver before it is ready.
\*   ready          driver.ready
\*   readyListeners listeners registered with driver.once("driver ready")
\*   resetsAwaited  hard reset handlers suspended at `await driver.hardReset()`
\*   readyOwed      "driver ready" signals the driver has yet to emit
\*   unsignalled    hard resets triggered since the last "driver ready"
\*   resets         hard resets triggered so far
\* The driver's start-up owes its first "driver ready".
NewDriver ==
    [ready |-> FALSE, readyListeners |-> 0, resetsAwaited |-> 0,
     readyOwed |-> 1, unsignalled |-> 0, resets |-> 0]

\* The http servers that hold the port.
Listening(gw) == {n \in Ids : gw.handle[n] = "listening"}

\* The websocket servers that emit "connection": still attached to an http
\* server that is listening.
Accepting(gw) == {n \in Listening(gw) : gw.ws[n] = "open"}

\* start() past the readiness check, up to `await once(this.server,
\* "listening")`: the three fields are assigned new objects and listen() is
\* called. timer and sessions tell what the ClientsController that
\* this.sockets referred to, if any, still held.
start(gw, timer, sessions) ==
    LET n == gw.starts + 1
    IN [gw EXCEPT !.starts = n,
                  !.server = n, !.wsServer = n, !.sockets = n,
                  !.handle[n] = "binding",
                  !.ws[n] = "open",
                  !.starting = @ \cup {n},
                  !.overwritten =
                      IF gw.sockets # Undefined
                      THEN @ \cup {[manager |-> gw.sockets, pingInterval |-> timer,
                                    clients |-> sessions]}
                      ELSE @]

\* start() called k times in a row, by the listeners of one "driver ready".
RECURSIVE startTimes(_, _, _, _)
startTimes(gw, timer, sessions, k) ==
    IF k = 0 THEN gw
    ELSE LET after == start(gw, timer, sessions)
         IN startTimes([after EXCEPT !.restarts = @ \cup {after.starts}],
                       FALSE, 0, k - 1)

\* this.emit(notification)
emit(gw, notification) == [gw EXCEPT !.emitted = Append(@, notification)]

\* A destroy() call returns: the hard reset handler that awaited it goes on
\* to emit "hard reset".
destroyReturns(gw, caller) == IF caller = "reset" THEN emit(gw, "hard reset") ELSE gw

\* A destroy() call throws (a field it reads again after an await is
\* undefined): its promise rejects, and so does the handler awaiting it.
destroyThrows(gw) == [gw EXCEPT !.faults = @ \cup {"destroy"}]

\* A destroy() call suspended at an await on object obj.
suspended(gw, at, obj, caller) ==
    [gw EXCEPT !.destroying = Append(@, [at |-> at, obj |-> obj, caller |-> caller])]

\* destroy() from `if (this.responder)`.
destroyFromResponder(gw, caller) ==
    IF gw.responder
    THEN suspended(gw, "responderShutdown", Undefined, caller)
    ELSE destroyReturns(gw, caller)

\* destroy() from `if (this.service)`.
destroyFromService(gw, caller) ==
    IF gw.service
    THEN suspended(gw, "serviceEnd", Undefined, caller)
    ELSE destroyFromResponder(gw, caller)

\* destroy() from `if (this.server)`: close() frees the port of a server
\* that is listening; its "close" event is due once its connections ended.
destroyFromServer(gw, caller) ==
    IF gw.server # Undefined
    THEN suspended([gw EXCEPT !.handle[gw.server] =
                                  IF @ = "listening" THEN "released" ELSE @,
                              !.closeEvent[gw.server] = "pending"],
                   "serverClose", gw.server, caller)
    ELSE destroyFromService(gw, caller)

\* destroy() from `if (this.wsServer)` without the await: the websocket
\* server is closed and the http server next, at once.
destroyFromWsServerUnawaited(gw, caller) ==
    IF gw.wsServer # Undefined
    THEN destroyFromServer([gw EXCEPT !.ws[gw.wsServer] = IF @ = "open" THEN "closing" ELSE @,
                                      !.wsServer = Undefined],
                           caller)
    ELSE destroyFromServer(gw, caller)

\* destroy() from `if (this.wsServer)`: close() detaches the websocket
\* server from its http server; its "close" event is due once its clients
\* are gone.
destroyFromWsServer(gw, caller) ==
    IF gw.wsServer # Undefined
    THEN suspended([gw EXCEPT !.ws[gw.wsServer] = IF @ = "open" THEN "closing" ELSE @],
                   "wsClose", gw.wsServer, caller)
    ELSE destroyFromServer(gw, caller)

\* The destroy() call d resumes after its await.
resume(gw, d) ==
    IF d.at = "wsClose"
    THEN IF gw.wsServer = Undefined THEN destroyThrows(gw)
         ELSE destroyFromServer([gw EXCEPT !.wsServer = Undefined], d.caller)
    ELSE IF d.at = "serverClose"
    THEN IF gw.server = Undefined THEN destroyThrows(gw)
         ELSE destroyFromService([gw EXCEPT !.server = Undefined], d.caller)
    ELSE IF d.at = "serviceEnd"
    THEN IF ~gw.service THEN destroyThrows(gw)
         ELSE suspended(gw, "serviceDestroy", Undefined, d.caller)
    ELSE IF d.at = "serviceDestroy"
    THEN IF ~gw.service THEN destroyThrows(gw)
         ELSE destroyFromResponder([gw EXCEPT !.service = FALSE], d.caller)
    ELSE destroyReturns([gw EXCEPT !.responder = FALSE], d.caller)

\* The destroy() calls ds resume one after the other, in call order.
RECURSIVE resumeAll(_, _)
resumeAll(gw, ds) ==
    IF ds = <<>> THEN gw ELSE resumeAll(resume(gw, Head(ds)), Tail(ds))

\* Event `at` of object obj is emitted: the destroy() calls awaiting it
\* leave the list of suspended calls and resume.
eventEmitted(gw, at, obj) ==
    LET waits(d) == d.at = at /\ d.obj = obj
        others(d) == ~waits(d)
    IN resumeAll([gw EXCEPT !.destroying = SelectSeq(@, others)],
                 SelectSeq(gw.destroying, waits))

\* ------------------------------------------------------------------- Init
\* The gateway once its first start() has returned and "listening" has been
\* emitted, with the defaults of the constructor (no teardown on hard reset)
\* and no service discovery.
StartedGateway ==
    LET gw == start(NewGateway(FALSE, FALSE), FALSE, 0)
    IN emit([gw EXCEPT !.handle[1] = "listening", !.starting = {}], "listening")

\* No socket accepted yet, a ClientsController as its constructor leaves it.
NoSessions ==
    /\ readyState = [c \in Sockets |-> "NONE"]
    /\ clients = <<>>
    /\ schemaVersion = [c \in Sockets |-> minSchemaVersion]
    /\ receiveEvents = [c \in Sockets |-> FALSE]
    /\ receiveLogs = [c \in Sockets |-> FALSE]
    /\ outstandingPing = [c \in Sockets |-> FALSE]
    /\ userAgent = [c \in Sockets |-> "undefined"]
    /\ sent = [c \in Sockets |-> <<>>]
    /\ pings = [c \in Sockets |-> 0]
    /\ awaiting = {}
    /\ pingInterval = FALSE
    /\ intervalTimers = 0
    /\ eventForwarder = FALSE
    /\ eventSubscriptions = 0
    /\ cleanupScheduled = FALSE
    /\ cleanupTimers = 0
    /\ loggingEventForwarder = FALSE
    /\ started = FALSE
    /\ forwarderLogConfig = "none"
    /\ driverLogConfig = "info"
    /\ published = 0
    /\ frames = 0
    /\ accepted = {}
    /\ listenFrom = [c \in Sockets |-> 0]
    /\ unhandledRejection = FALSE

\* The ClientsController right after start() created it: the gateway is
\* listening and no socket has been accepted yet.
Init ==
    /\ NoSessions
    /\ gateway = StartedGateway
    /\ driver = [NewDriver EXCEPT !.ready = TRUE, !.readyOwed = 0]

\* ------------------------------------------------- ClientsController
\* scheduleClientCleanup without the cleanupScheduled test.
scheduleClientCleanupAlways(scheduled, timers) == <<TRUE, timers + 1>>

\* ClientsController.scheduleClientCleanup, as the pair
\* <<cleanupScheduled, cleanupTimers>> it leaves.
scheduleClientCleanup(scheduled, timers) ==
    IF scheduled THEN <<scheduled, timers>> ELSE <<TRUE, timers + 1>>

\* addSocket without the `eventForwarder === undefined` test: a forwarder
\* is created and started for every socket.
AddSocketForwarderPerSocket(c) ==
    /\ readyState[c] = "NONE"
    /\ \A d \in 1 .. (c - 1) : readyState[d] # "NONE"
    /\ gateway.sockets # Undefined
    /\ \E n \in Accepting(gateway) :
          gateway' = [gateway EXCEPT !.connections[c] = n, !.managers[c] = gateway.sockets]
    /\ readyState' = [readyState EXCEPT ![c] = "OPEN"]
    /\ schemaVersion' = [schemaVersion EXCEPT ![c] = minSchemaVersion]
    /\ receiveEvents' = [receiveEvents EXCEPT ![c] = FALSE]
    /\ receiveLogs' = [receiveLogs EXCEPT ![c] = FALSE]
    /\ outstandingPing' = [outstandingPing EXCEPT ![c] = FALSE]
    /\ userAgent' = [userAgent EXCEPT ![c] = "undefined"]
    /\ sent' = sendVersion(sent, c)
    /\ clients' = Append(clients, c)
    /\ pingInterval' = TRUE
    /\ intervalTimers' = IF pingInterval THEN intervalTimers ELSE intervalTimers + 1
    /\ eventForwarder' = TRUE
    /\ eventSubscriptions' = eventSubscriptions + 1
    /\ UNCHANGED <<pings, listenFrom, cleanupScheduled, cleanupTimers, loggingVars,
                   published, requestVars,
                   driver>>

\* addSocket without its call of sendVersion.
AddSocketNoGreeting(c) ==
    /\ readyState[c] = "NONE"
    /\ \A d \in 1 .. (c - 1) : readyState[d] # "NONE"
    /\ gateway.sockets # Undefined
    /\ \E n \in Accepting(gateway) :
          gateway' = [gateway EXCEPT !.connections[c] = n, !.managers[c] = gateway.sockets]
    /\ readyState' = [readyState EXCEPT ![c] = "OPEN"]
    /\ schemaVersion' = [schemaVersion EXCEPT ![c] = minSchemaVersion]
    /\ receiveEvents' = [receiveEvents EXCEPT ![c] = FALSE]
    /\ receiveLogs' = [receiveLogs EXCEPT ![c] = FALSE]
    /\ outstandingPing' = [outstandingPing EXCEPT ![c] = FALSE]
    /\ userAgent' = [userAgent EXCEPT ![c] = "undefined"]
    /\ clients' = Append(clients, c)
    /\ pingInterval' = TRUE
    /\ intervalTimers' = IF pingInterval THEN intervalTimers ELSE intervalTimers + 1
    /\ eventForwarder' = TRUE
    /\ eventSubscriptions' = IF eventForwarder THEN eventSubscriptions
                             ELSE eventSubscriptions + 1
    /\ UNCHANGED <<sent, pings, listenFrom, cleanupScheduled, cleanupTimers, loggingVars,
                   published, requestVars,
                   driver>>

\* addSocket calling setInterval for every socket.
AddSocketTimerPerSocket(c) ==
    /\ readyState[c] = "NONE"
    /\ \A d \in 1 .. (c - 1) : readyState[d] # "NONE"
    /\ gateway.sockets # Undefined
    /\ \E n \in Accepting(gateway) :
          gateway' = [gateway EXCEPT !.connections[c] = n, !.managers[c] = gateway.sockets]
    /\ readyState' = [readyState EXCEPT ![c] = "OPEN"]
    /\ schemaVersion' = [schemaVersion EXCEPT ![c] = minSchemaVersion]
    /\ receiveEvents' = [receiveEvents EXCEPT ![c] = FALSE]
    /\ receiveLogs' = [receiveLogs EXCEPT ![c] = FALSE]
    /\ outstandingPing' = [outstandingPing EXCEPT ![c] = FALSE]
    /\ userAgent' = [userAgent EXCEPT ![c] = "undefined"]
    /\ sent' = sendVersion(sent, c)
    /\ clients' = Append(clients, c)
    /\ pingInterval' = TRUE
    /\ intervalTimers' = intervalTimers + 1
    /\ eventForwarder' = TRUE
    /\ eventSubscriptions' = IF eventForwarder THEN eventSubscriptions
                             ELSE eventSubscriptions + 1
    /\ UNCHANGED <<pings, listenFrom, cleanupScheduled, cleanupTimers, loggingVars,
                   published, requestVars,
                   driver>>

\* The websocket server's "connection" observer of start():
\* this.sockets.addSocket(socket), the whole of ClientsController.addSocket.
\* Sockets are numbered in the order they are accepted.
AddSocket(c) ==
    /\ readyState[c] = "NONE"
    /\ \A d \in 1 .. (c - 1) : readyState[d] # "NONE"
    /\ gateway.sockets # Undefined
    /\ \E n \in Accepting(gateway) :
          gateway' = [gateway EXCEPT !.connections[c] = n, !.managers[c] = gateway.sockets]
    /\ readyState' = [readyState EXCEPT ![c] = "OPEN"]
    /\ schemaVersion' = [schemaVersion EXCEPT ![c] = minSchemaVersion]
    /\ receiveEvents' = [receiveEvents EXCEPT ![c] = FALSE]
    /\ receiveLogs' = [receiveLogs EXCEPT ![c] = FALSE]
    /\ outstandingPing' = [outstandingPing EXCEPT ![c] = FALSE]
    /\ userAgent' = [userAgent EXCEPT ![c] = "undefined"]
    /\ sent' = sendVersion(sent, c)
    /\ clients' = Append(clients, c)
    /\ pingInterval' = TRUE
    /\ intervalTimers' = IF pingInterval THEN intervalTimers ELSE intervalTimers + 1
    /\ eventForwarder' = TRUE
    /\ eventSubscriptions' = IF eventForwarder THEN eventSubscriptions
                             ELSE eventSubscriptions + 1
    /\ UNCHANGED <<pings, listenFrom, cleanupScheduled, cleanupTimers, loggingVars,
                   published, requestVars,
                   driver>>

\* The socket's "close" event: the transport is closed, and the observer
\* addSocket registered calls scheduleClientCleanup of the
\* ClientsController that accepted the socket.
SocketClosed(c) ==
    /\ readyState[c] \in {"OPEN", "CLOSING"}
    /\ readyState' = [readyState EXCEPT ![c] = "CLOSED"]
    /\ LET s == IF gateway.managers[c] = gateway.starts
                THEN scheduleClientCleanup(cleanupScheduled, cleanupTimers)
                ELSE <<cleanupScheduled, cleanupTimers>>
       IN /\ cleanupScheduled' = s[1]
          /\ cleanupTimers' = s[2]
    /\ UNCHANGED <<clients, clientVars, sent, pings, pingInterval, intervalTimers, loggingVars,
                   eventVars, requestVars,
                   gatewayVars>>

\* The peer starts the closing handshake: the socket is no longer OPEN, and
\* its "close" event has not fired yet.
PeerClosing(c) ==
    /\ readyState[c] = "OPEN"
    /\ readyState' = [readyState EXCEPT ![c] = "CLOSING"]
    /\ UNCHANGED <<clients, clientVars, sent, pings, timerVars, loggingVars,
                   eventVars, requestVars,
                   gatewayVars>>

\* The socket's "pong" event (a peer may send a pong unasked).
Pong(c) ==
    /\ readyState[c] = "OPEN"
    /\ outstandingPing' = [outstandingPing EXCEPT ![c] = FALSE]
    /\ UNCHANGED <<readyState, clients, schemaVersion, receiveEvents, receiveLogs,
                   userAgent, listenFrom, sent, pings, timerVars, loggingVars,
                   eventVars, requestVars,
                   gatewayVars>>

\* checkAlive that pings a session whose last ping is unanswered instead of
\* closing it.
checkAlivePingsAgain(rs, op, pg, c) ==
    [readyState |-> rs,
     outstandingPing |-> [op EXCEPT ![c] = TRUE],
     pings |-> [pg EXCEPT ![c] = @ + 1]]

\* Client.checkAlive, as the record of what it leaves.
checkAlive(rs, op, pg, c) ==
    IF op[c]
    THEN [readyState |-> ClientDisconnect(rs, c), outstandingPing |-> op, pings |-> pg]
    ELSE [readyState |-> rs,
          outstandingPing |-> [op EXCEPT ![c] = TRUE],
          pings |-> [pg EXCEPT ![c] = @ + 1]]

\* Client.checkAlive called on a session (a public method; nothing in
\* server.ts calls it).
CheckAlive(c) ==
    /\ readyState[c] # "NONE"
    /\ pings[c] < MaxProbes
    /\ LET st == checkAlive(readyState, outstandingPing, pings, c)
       IN /\ readyState' = st.readyState
          /\ outstandingPing' = st.outstandingPing
          /\ pings' = st.pings
    /\ UNCHANGED <<clients, schemaVersion, receiveEvents, receiveLogs, userAgent,
                   listenFrom, sent, timerVars, loggingVars, eventVars, requestVars,
                   gatewayVars>>

\* The interval callback keeping every client, connected or not.
RECURSIVE pingLoopKeepsAll(_, _)
pingLoopKeepsAll(cls, st) ==
    IF cls = <<>> THEN st
    ELSE pingLoopKeepsAll(Tail(cls), [st EXCEPT !.newClients = Append(@, Head(cls))])

\* The body of the setInterval callback of addSocket, over the registry:
\* connected clients are kept, the others are disconnected and dropped.
RECURSIVE pingLoop(_, _)
pingLoop(cls, st) ==
    IF cls = <<>> THEN st
    ELSE LET client == Head(cls)
         IN IF st.readyState[client] = "OPEN"
            THEN pingLoop(Tail(cls), [st EXCEPT !.newClients = Append(@, client)])
            ELSE pingLoop(Tail(cls),
                          [st EXCEPT !.readyState = ClientDisconnect(@, client)])

\* A tick of the heartbeat timer (every 30000 ms until it is cleared).
HeartbeatTick ==
    /\ intervalTimers > 0
    /\ LET st == pingLoop(clients, [newClients |-> <<>>, readyState |-> readyState])
       IN /\ clients' = st.newClients
          /\ readyState' = st.readyState
    /\ UNCHANGED <<clientVars, sent, pings, timerVars, loggingVars, eventVars,
                   requestVars,
                   gatewayVars>>

\* cleanupClients dropping only the sessions whose socket is closed: one
\* that is closing stays.
CleanupClientsKeepsClosing ==
    /\ cleanupTimers > 0
    /\ cleanupTimers' = cleanupTimers - 1
    /\ cleanupScheduled' = FALSE
    /\ LET notClosed(c) == readyState[c] # "CLOSED"
       IN clients' = SelectSeq(clients, notClosed)
    /\ SetLogging(cleanupLoggingEventForwarder(CurrentLogging, clients', receiveLogs))
    /\ UNCHANGED <<readyState, clientVars, sent, pings, pingInterval, intervalTimers,
                   driverLogConfig,
                   eventVars, requestVars,
                   gatewayVars>>

\* ClientsController.cleanupClients, run by the timer scheduleClientCleanup set.
CleanupClients ==
    /\ cleanupTimers > 0
    /\ cleanupTimers' = cleanupTimers - 1
    /\ cleanupScheduled' = FALSE
    /\ clients' = SelectSeq(clients, isConnected)
    /\ SetLogging(cleanupLoggingEventForwarder(CurrentLogging, clients', receiveLogs))
    /\ UNCHANGED <<readyState, clientVars, sent, pings, pingInterval, intervalTimers,
                   driverLogConfig,
                   eventVars, requestVars,
                   gatewayVars>>

\* Every client of the registry disconnected (clients.forEach(client.disconnect())).
RECURSIVE disconnectAll(_, _)
disconnectAll(cls, rs) ==
    IF cls = <<>> THEN rs ELSE disconnectAll(Tail(cls), ClientDisconnect(rs, Head(cls)))

\* disconnect without its call of cleanupLoggingEventForwarder.
DisconnectKeepsForwarder ==
    /\ intervalTimers' = IF pingInterval THEN intervalTimers - 1 ELSE intervalTimers
    /\ pingInterval' = FALSE
    /\ readyState' = disconnectAll(clients, readyState)
    /\ clients' = <<>>
    /\ UNCHANGED <<clientVars, sent, pings, cleanupScheduled, cleanupTimers,
                   loggingVars, eventVars, requestVars,
                   gatewayVars>>

\* What ClientsController.disconnect assigns.
ManagerDisconnect ==
    /\ intervalTimers' = IF pingInterval THEN intervalTimers - 1 ELSE intervalTimers
    /\ pingInterval' = FALSE
    /\ readyState' = disconnectAll(clients, readyState)
    /\ clients' = <<>>
    /\ SetLogging(cleanupLoggingEventForwarder(CurrentLogging, clients', receiveLogs))

\* disconnect that also forgets its Event Forwarder.
DisconnectForgetsForwarder ==
    /\ ManagerDisconnect
    /\ eventForwarder' = FALSE
    /\ UNCHANGED <<clientVars, sent, pings, cleanupScheduled, cleanupTimers,
                   driverLogConfig, eventSubscriptions, published, requestVars,
                   gatewayVars>>

\* ClientsController.disconnect
Disconnect ==
    /\ ManagerDisconnect
    /\ UNCHANGED <<clientVars, sent, pings, cleanupScheduled, cleanupTimers,
                   driverLogConfig, eventVars, requestVars,
                   gatewayVars>>

\* ------------------------------------------------- Client.receiveMessage
\* A parsed message: hasCommand is FALSE when msg.command is undefined,
\* messageId is NoMessageId when msg.messageId is undefined.
Msg(hasCommand, command, messageId, version, config) ==
    [hasCommand |-> hasCommand, command |-> command, messageId |-> messageId,
     schemaVersion |-> version, config |-> config]

\* The messages a client may send as its next frame, with messageId id,
\* by the command they carry.
NegotiationMessages(cmd, id) == {Msg(TRUE, cmd, id, v, "none") : v \in RequestedVersions}
LogConfigMessages(cmd, id) == {Msg(TRUE, cmd, id, 0, cfg) : cfg \in LogConfigs}
PlainMessages(cmds, id) == {Msg(TRUE, cmd, id, 0, "none") : cmd \in cmds}
\* Frames that parse to something without a command, with or without a
\* messageId.
CommandlessMessages(id) == {Msg(FALSE, <<>>, i, 0, "none") : i \in {id, NoMessageId}}

\* What every branch of receiveMessage shares: the frame arrives on an open
\* socket, parses, and takes the branch `name`.
Receives(c, msg, name) ==
    /\ readyState[c] = "OPEN"
    /\ frames < MaxRequests
    /\ msg.messageId \in {NoMessageId, frames + 1}
    /\ Branch(msg.hasCommand, msg.command) = name
    /\ frames' = frames + 1
    /\ accepted' = IF msg.messageId = NoMessageId THEN accepted
                   ELSE accepted \cup {[client |-> c, messageId |-> msg.messageId]}

\* A parse failure answered like any other failure, the socket left open.
ParseFailureReplies(c) ==
    /\ readyState[c] = "OPEN"
    /\ frames < MaxRequests
    /\ frames' = frames + 1
    /\ sent' = catch(sent, c, NoMessageId, OtherError)
    /\ UNCHANGED <<readyState, clients, clientVars, pings, timerVars, loggingVars,
                   eventVars, awaiting, accepted, unhandledRejection,
                   gatewayVars>>

\* JSON.parse throws: the socket is closed, nothing is sent.
ParseFailure(c) ==
    /\ readyState[c] = "OPEN"
    /\ frames < MaxRequests
    /\ frames' = frames + 1
    /\ readyState' = [readyState EXCEPT ![c] = SocketClose(@)]
    /\ UNCHANGED <<clients, clientVars, sent, pings, timerVars, loggingVars, eventVars,
                   awaiting, accepted, unhandledRejection,
                   gatewayVars>>

\* The frame is the JSON text null: msg.command throws a TypeError inside
\* the try block, and msg.messageId throws another inside the catch block,
\* which nothing catches.
ParsedNull(c) ==
    /\ readyState[c] = "OPEN"
    /\ frames < MaxRequests
    /\ frames' = frames + 1
    /\ unhandledRejection' = TRUE
    /\ UNCHANGED <<readyState, clients, clientVars, sent, pings, timerVars, loggingVars,
                   eventVars, awaiting, accepted,
                   gatewayVars>>

\* msg.command is undefined: msg.command.split throws a TypeError, which
\* the catch block reports as unknownError.
NoCommand(c, msg) ==
    /\ Receives(c, msg, "typeError")
    /\ sent' = catch(sent, c, msg.messageId, OtherError)
    /\ UNCHANGED <<readyState, clients, clientVars, pings, timerVars, loggingVars,
                   eventVars, awaiting, unhandledRejection,
                   gatewayVars>>

\* command === ServerCommand.initialize
Initialize(c, msg) ==
    /\ Receives(c, msg, "initialize")
    /\ LET r == setSchemaVersion(msg.schemaVersion)
       IN /\ schemaVersion' = [schemaVersion EXCEPT ![c] = r.stored]
          /\ userAgent' = IF r.thrown = NoError
                          THEN [userAgent EXCEPT ![c] = "given"]
                          ELSE userAgent
          /\ sent' = IF r.thrown = NoError
                     THEN sendResultSuccess(sent, c, msg.messageId, "empty")
                     ELSE catch(sent, c, msg.messageId, r.thrown)
    /\ UNCHANGED <<readyState, clients, receiveEvents, receiveLogs, outstandingPing,
                   listenFrom, pings, timerVars, loggingVars, eventVars, awaiting,
                   unhandledRejection,
                   gatewayVars>>

\* command === ServerCommand.setApiSchema
SetApiSchema(c, msg) ==
    /\ Receives(c, msg, "setApiSchema")
    /\ LET r == setSchemaVersion(msg.schemaVersion)
       IN /\ schemaVersion' = [schemaVersion EXCEPT ![c] = r.stored]
          /\ sent' = IF r.thrown = NoError
                     THEN sendResultSuccess(sent, c, msg.messageId, "empty")
                     ELSE catch(sent, c, msg.messageId, r.thrown)
    /\ UNCHANGED <<readyState, clients, receiveEvents, receiveLogs, outstandingPing,
                   userAgent, listenFrom, pings, timerVars, loggingVars, eventVars,
                   awaiting, unhandledRejection,
                   gatewayVars>>

\* startListening with the flag set whether or not dumpState returned.
StartListeningFlagAlways(c, msg, dumped) ==
    /\ Receives(c, msg, "startListening")
    /\ sent' = IF dumped = NoError
               THEN sendResultSuccess(sent, c, msg.messageId, "state")
               ELSE catch(sent, c, msg.messageId, dumped)
    /\ receiveEvents' = [receiveEvents EXCEPT ![c] = TRUE]
    /\ listenFrom' = IF ~receiveEvents[c]
                     THEN [listenFrom EXCEPT ![c] = published]
                     ELSE listenFrom
    /\ UNCHANGED <<readyState, clients, schemaVersion, receiveLogs, outstandingPing,
                   userAgent, pings, timerVars, loggingVars, eventVars, awaiting,
                   unhandledRejection,
                   gatewayVars>>

\* startListening that answers nothing when dumpState throws.
StartListeningSwallowsFailure(c, msg, dumped) ==
    /\ Receives(c, msg, "startListening")
    /\ sent' = IF dumped = NoError
               THEN sendResultSuccess(sent, c, msg.messageId, "state")
               ELSE sent
    /\ receiveEvents' = IF dumped = NoError
                        THEN [receiveEvents EXCEPT ![c] = TRUE]
                        ELSE receiveEvents
    /\ listenFrom' = IF dumped = NoError /\ ~receiveEvents[c]
                     THEN [listenFrom EXCEPT ![c] = published]
                     ELSE listenFrom
    /\ UNCHANGED <<readyState, clients, schemaVersion, receiveLogs, outstandingPing,
                   userAgent, pings, timerVars, loggingVars, eventVars, awaiting,
                   unhandledRejection,
                   gatewayVars>>

\* command === ServerCommand.startListening; dumpState returns the state
\* snapshot or throws.
StartListening(c, msg, dumped) ==
    /\ Receives(c, msg, "startListening")
    /\ sent' = IF dumped = NoError
               THEN sendResultSuccess(sent, c, msg.messageId, "state")
               ELSE catch(sent, c, msg.messageId, dumped)
    /\ receiveEvents' = IF dumped = NoError
                        THEN [receiveEvents EXCEPT ![c] = TRUE]
                        ELSE receiveEvents
    /\ listenFrom' = IF dumped = NoError /\ ~receiveEvents[c]
                     THEN [listenFrom EXCEPT ![c] = published]
                     ELSE listenFrom
    /\ UNCHANGED <<readyState, clients, schemaVersion, receiveLogs, outstandingPing,
                   userAgent, pings, timerVars, loggingVars, eventVars, awaiting,
                   unhandledRejection,
                   gatewayVars>>

\* command === ServerCommand.updateLogConfig
UpdateLogConfig(c, msg) ==
    /\ Receives(c, msg, "updateLogConfig")
    /\ driverLogConfig' = msg.config
    /\ sent' = sendResultSuccess(sent, c, msg.messageId, "empty")
    /\ UNCHANGED <<readyState, clients, clientVars, pings, timerVars,
                   loggingEventForwarder, started, forwarderLogConfig, eventVars,
                   awaiting, unhandledRejection,
                   gatewayVars>>

\* command === ServerCommand.getLogConfig; dumpLogConfig returns or throws.
GetLogConfig(c, msg, dumped) ==
    /\ Receives(c, msg, "getLogConfig")
    /\ sent' = IF dumped = NoError
               THEN sendResultSuccess(sent, c, msg.messageId, "config")
               ELSE catch(sent, c, msg.messageId, dumped)
    /\ UNCHANGED <<readyState, clients, clientVars, pings, timerVars, loggingVars,
                   eventVars, awaiting, unhandledRejection,
                   gatewayVars>>

\* No instance handler for the command's prefix: UnknownCommandError.
UnknownCommand(c, msg) ==
    /\ Receives(c, msg, "unknownCommand")
    /\ sent' = catch(sent, c, msg.messageId, UnknownCommandError)
    /\ UNCHANGED <<readyState, clients, clientVars, pings, timerVars, loggingVars,
                   eventVars, awaiting, unhandledRejection,
                   gatewayVars>>

\* What dumpState, dumpLogConfig or an external handler may throw.
ExternalErrors == {HandlerBaseError, ZWaveError, OtherError}

\* The driver handler family's startListeningLogs: the session's receiveLogs
\* is set and the Logging Forwarder configured; the handler returns at once,
\* so the reply follows in the same turn.
DriverStartListeningLogs(c, msg) ==
    /\ Receives(c, msg, "instance")
    /\ msg.command = driverStartListeningLogs
    /\ receiveLogs' = [receiveLogs EXCEPT ![c] = TRUE]
    /\ SetLogging(configureLoggingEventForwarder(CurrentLogging, driverLogConfig))
    /\ sent' = sendResultSuccess(sent, c, msg.messageId, "empty")
    /\ UNCHANGED <<readyState, clients, schemaVersion, receiveEvents, outstandingPing,
                   userAgent, listenFrom, pings, timerVars, driverLogConfig, eventVars,
                   awaiting, unhandledRejection,
                   gatewayVars>>

\* The driver handler family's stopListeningLogs.
DriverStopListeningLogs(c, msg) ==
    /\ Receives(c, msg, "instance")
    /\ msg.command = driverStopListeningLogs
    /\ receiveLogs' = [receiveLogs EXCEPT ![c] = FALSE]
    /\ SetLogging(cleanupLoggingEventForwarder(CurrentLogging, clients, receiveLogs'))
    /\ sent' = sendResultSuccess(sent, c, msg.messageId, "empty")
    /\ UNCHANGED <<readyState, clients, schemaVersion, receiveEvents, outstandingPing,
                   userAgent, listenFrom, pings, timerVars, driverLogConfig, eventVars,
                   awaiting, unhandledRejection,
                   gatewayVars>>

\* The driver handler family's updateLogConfig.
DriverUpdateLogConfig(c, msg) ==
    /\ Receives(c, msg, "instance")
    /\ msg.command = driverUpdateLogConfig
    /\ driverLogConfig' = msg.config
    /\ SetLogging(restartLoggingEventForwarderIfNeeded(CurrentLogging, driverLogConfig'))
    /\ sent' = sendResultSuccess(sent, c, msg.messageId, "empty")
    /\ UNCHANGED <<readyState, clients, clientVars, pings, timerVars, eventVars,
                   awaiting, unhandledRejection,
                   gatewayVars>>

\* instanceHandlers[instance] is a key inherited from Object.prototype:
\* the call returns a value at once and it is sent as a success result.
InheritedHandler(c, msg) ==
    /\ Receives(c, msg, "instance")
    /\ instanceHandlers(split0(msg.command)) = "inherited"
    /\ sent' = sendResultSuccess(sent, c, msg.messageId, "inherited")
    /\ UNCHANGED <<readyState, clients, clientVars, pings, timerVars, loggingVars,
                   eventVars, awaiting, unhandledRejection,
                   gatewayVars>>

\* Any other command of a handler family: receiveMessage is suspended at
\* `await this.instanceHandlers[instance](msg)`.
InstanceHandler(c, msg) ==
    /\ Receives(c, msg, "instance")
    /\ instanceHandlers(split0(msg.command)) = "handler"
    /\ msg.command \notin {driverStartListeningLogs, driverStopListeningLogs,
                           driverUpdateLogConfig}
    /\ awaiting' = awaiting \cup {[client |-> c, messageId |-> msg.messageId,
                                   instance |-> split0(msg.command)]}
    /\ UNCHANGED <<readyState, clients, clientVars, sent, pings, timerVars, loggingVars,
                   eventVars, unhandledRejection,
                   gatewayVars>>

\* The awaited handler settles: its result is sent, or what it threw goes
\* through the catch block.
HandlerSettles(p, thrown) ==
    /\ p \in awaiting
    /\ awaiting' = awaiting \ {p}
    /\ sent' = IF thrown = NoError
               THEN sendResultSuccess(sent, p.client, p.messageId, "handled")
               ELSE catch(sent, p.client, p.messageId, thrown)
    /\ UNCHANGED <<readyState, clients, clientVars, pings, timerVars, loggingVars,
                   eventVars, frames, accepted, unhandledRejection,
                   gatewayVars>>

\* The driver publishes a domain event; every started subscription of an
\* Event Forwarder forwards it.
PublishEvent ==
    /\ published < MaxEvents
    /\ published' = published + 1
    /\ sent' = deliver(eventSubscriptions, sent, clients, receiveEvents, published')
    /\ UNCHANGED <<readyState, clients, clientVars, pings, timerVars, loggingVars,
                   eventForwarder, eventSubscriptions, requestVars,
                   gatewayVars>>

\* ------------------------------------------------- ZwavejsServer steps
\* The fields of the ClientsController that this.sockets refers to.
managerVars == <<clients, pingInterval, intervalTimers, eventForwarder, eventSubscriptions,
                 cleanupScheduled, cleanupTimers, loggingEventForwarder, started,
                 forwarderLogConfig>>
\* What no step of the gateway writes, but for the sockets that
\* ClientsController.disconnect closes.
sessionVars == <<clientVars, sent, pings, driverLogConfig, published, requestVars>>

\* new ClientsController(driver, logger): from here on the registry, the
\* timers and the forwarders are those of the new object.
FreshManager ==
    /\ clients' = <<>>
    /\ pingInterval' = FALSE
    /\ intervalTimers' = 0
    /\ eventForwarder' = FALSE
    /\ eventSubscriptions' = 0
    /\ cleanupScheduled' = FALSE
    /\ cleanupTimers' = 0
    /\ loggingEventForwarder' = FALSE
    /\ started' = FALSE
    /\ forwarderLogConfig' = "none"

\* start() without its readiness check.
StartUnchecked ==
    /\ gateway.starts < MaxStarts
    /\ gateway' = start(gateway, pingInterval, Len(clients))
    /\ FreshManager
    /\ UNCHANGED <<readyState, sessionVars, driver>>

\* The host calls start(): it throws when the driver is not ready, and
\* otherwise runs up to its await.
Start ==
    /\ gateway.starts < MaxStarts
    /\ IF driver.ready
       THEN /\ gateway' = start(gateway, pingInterval, Len(clients))
            /\ FreshManager
       ELSE /\ gateway' = [gateway EXCEPT !.faults = @ \cup {"startNotReady"}]
            /\ UNCHANGED managerVars
    /\ UNCHANGED <<readyState, sessionVars, driver>>

\* The bind of http server n completes. The port is free: the server emits
\* "listening", and the start() call awaiting it goes on to emit
\* "listening" and to advertise the service. The port is held by another
\* server of the gateway: the server emits "error", which onError forwards
\* and which rejects the start() call awaiting "listening".
Listens(n) ==
    /\ gateway.handle[n] = "binding"
    /\ gateway' =
          IF Listening(gateway) # {}
          THEN [emit(gateway, "error") EXCEPT !.handle[n] = "failed",
                                              !.starting = @ \ {n},
                                              !.faults = @ \cup {"startListen"}]
          ELSE LET gw == emit([gateway EXCEPT !.handle[n] = "listening",
                                              !.starting = @ \ {n}], "listening")
               IN IF gateway.enableDNSServiceDiscovery
                  THEN [gw EXCEPT !.responder = TRUE, !.service = TRUE]
                  ELSE gw
    /\ UNCHANGED <<readyState, managerVars, sessionVars, driver>>

\* A websocket server emits "connection" while this.sockets is undefined:
\* `this.sockets!.addSocket(socket)` throws a TypeError in the observer.
ConnectionWithoutManager ==
    /\ Accepting(gateway) # {}
    /\ gateway.sockets = Undefined
    /\ gateway' = [gateway EXCEPT !.faults = @ \cup {"connection"}]
    /\ UNCHANGED <<readyState, managerVars, sessionVars, driver>>

\* The hard reset observer that subscribes to "driver ready" only after
\* the reset: up to its await nothing is subscribed.
hardResetObserverSubscribesLate(drv) ==
    [drv EXCEPT !.resetsAwaited = @ + 1]

\* The "hard reset" observer of start() up to its await:
\* driver.once("driver ready", ...), then driver.hardReset() is called.
hardResetObserver(drv) ==
    [drv EXCEPT !.readyListeners = @ + 1, !.resetsAwaited = @ + 1]

\* driver.hardReset() is triggered: the driver is not ready until it has
\* come up again, which it tells with one "driver ready".
hardReset(drv) ==
    [drv EXCEPT !.resets = @ + 1, !.ready = FALSE, !.readyOwed = @ + 1,
                !.unsignalled = @ + 1]

\* A connected session asks for a hard reset: the ClientsController emits
\* "hard reset".
HardResetRequested ==
    /\ driver.resets < MaxResets
    /\ \E c \in Sockets : isConnected(c)
    /\ driver' = hardReset(hardResetObserver(driver))
    /\ UNCHANGED <<readyState, managerVars, sessionVars, gateway>>

\* The driver emits "driver ready": every listener registered with once()
\* is removed and calls this.start().
DriverReady ==
    /\ driver.readyOwed > 0
    /\ gateway.starts + driver.readyListeners <= MaxStarts
    /\ driver' = [driver EXCEPT !.ready = TRUE, !.readyOwed = @ - 1,
                                !.readyListeners = 0, !.unsignalled = 0]
    /\ gateway' = startTimes(gateway, pingInterval, Len(clients), driver.readyListeners)
    /\ IF driver.readyListeners > 0 THEN FreshManager ELSE UNCHANGED managerVars
    /\ UNCHANGED <<readyState, sessionVars>>

\* destroy() up to its first await, called on gateway gw:
\* this.sockets.disconnect() if there is a ClientsController, then the
\* first close there is to wait for.
destroy(gw, caller) ==
    /\ IF gw.sockets # Undefined
       THEN ManagerDisconnect
       ELSE UNCHANGED <<pingInterval, intervalTimers, readyState, clients, loggingEventForwarder,
                        started, forwarderLogConfig>>
    /\ gateway' = destroyFromWsServer([gw EXCEPT !.sockets = Undefined], caller)
    /\ UNCHANGED <<eventForwarder, eventSubscriptions, cleanupScheduled, cleanupTimers,
                   sessionVars>>

\* The host calls destroy().
Destroy ==
    /\ gateway.destroys < MaxDestroys
    /\ destroy([gateway EXCEPT !.destroys = @ + 1], "host")
    /\ UNCHANGED driver

\* driver.hardReset() resolves and the hard reset observer resumes: it
\* awaits destroy() if the gateway is to be torn down, then emits
\* "hard reset".
HardResetResolves ==
    /\ driver.resetsAwaited > 0
    /\ driver' = [driver EXCEPT !.resetsAwaited = @ - 1]
    /\ IF gateway.destroyServerOnHardReset
       THEN destroy(gateway, "reset")
       ELSE /\ gateway' = emit(gateway, "hard reset")
            /\ UNCHANGED <<readyState, managerVars, sessionVars>>

\* The sockets that websocket server n accepted are all closed.
Drained(n) ==
    \A c \in Sockets : gateway.connections[c] = n => readyState[c] = "CLOSED"

\* Websocket server n, closed and with no client left, emits "close".
WsServerClosed(n) ==
    /\ gateway.ws[n] = "closing"
    /\ Drained(n)
    /\ gateway' = eventEmitted([gateway EXCEPT !.ws[n] = "closed"], "wsClose", n)
    /\ UNCHANGED <<readyState, managerVars, sessionVars, driver>>

\* Http server n, closed and with no connection left, emits "close".
ServerClosed(n) ==
    /\ gateway.closeEvent[n] = "pending"
    /\ Drained(n)
    /\ gateway' = eventEmitted([gateway EXCEPT !.closeEvent[n] = "emitted"],
                               "serverClose", n)
    /\ UNCHANGED <<readyState, managerVars, sessionVars, driver>>

\* The discovery call that the i-th suspended destroy() awaits
\* (service.end(), service.destroy(), responder.shutdown()) resolves.
DiscoveryStepDone(i) ==
    /\ i \in 1 .. Len(gateway.destroying)
    /\ gateway.destroying[i].at \in {"serviceEnd", "serviceDestroy", "responderShutdown"}
    /\ gateway' =
          resume([gateway EXCEPT !.destroying =
                      SubSeq(@, 1, i - 1) \o SubSeq(@, i + 1, Len(@))],
                 gateway.destroying[i])
    /\ UNCHANGED <<readyState, managerVars, sessionVars, driver>>

\* ------------------------------------------------------------------- Next
\* Connections come and go.
SocketSteps ==
    \/ \E c \in Sockets : AddSocket(c)
    \/ \E c \in Sockets : SocketClosed(c)
    \/ \E c \in Sockets : PeerClosing(c)
    \/ \E c \in Sockets : Pong(c)

\* The Connection Manager's timers and its full teardown.
ManagerSteps ==
    \/ HeartbeatTick
    \/ CleanupClients
    \/ Disconnect

\* A frame arrives on a socket: the socket's "message" event.
FrameSteps ==
    \/ \E c \in Sockets : ParseFailure(c)
    \/ \E c \in Sockets : ParsedNull(c)
    \/ \E c \in Sockets, msg \in CommandlessMessages(frames + 1) : NoCommand(c, msg)
    \/ \E c \in Sockets, msg \in NegotiationMessages(initialize, frames + 1) :
          Initialize(c, msg)
    \/ \E c \in Sockets, msg \in NegotiationMessages(setApiSchema, frames + 1) :
          SetApiSchema(c, msg)
    \/ \E c \in Sockets, msg \in PlainMessages({startListening}, frames + 1),
          d \in {NoError, OtherError} : StartListening(c, msg, d)
    \/ \E c \in Sockets, msg \in LogConfigMessages(updateLogConfig, frames + 1) :
          UpdateLogConfig(c, msg)
    \/ \E c \in Sockets, msg \in PlainMessages({getLogConfig}, frames + 1),
          d \in {NoError, OtherError} : GetLogConfig(c, msg, d)
    \/ \E c \in Sockets, msg \in PlainMessages(Commands, frames + 1) :
          UnknownCommand(c, msg)
    \/ \E c \in Sockets, msg \in PlainMessages({driverStartListeningLogs}, frames + 1) :
          DriverStartListeningLogs(c, msg)
    \/ \E c \in Sockets, msg \in PlainMessages({driverStopListeningLogs}, frames + 1) :
          DriverStopListeningLogs(c, msg)
    \/ \E c \in Sockets, msg \in LogConfigMessages(driverUpdateLogConfig, frames + 1) :
          DriverUpdateLogConfig(c, msg)
    \/ \E c \in Sockets, msg \in PlainMessages(Commands, frames + 1) :
          InheritedHandler(c, msg)
    \/ \E c \in Sockets, msg \in PlainMessages(Commands, frames + 1) :
          InstanceHandler(c, msg)

\* An awaited handler settles.
HandlerSteps ==
    \E p \in awaiting, t \in {NoError} \cup ExternalErrors : HandlerSettles(p, t)

Next ==
    \/ SocketSteps
    \/ ManagerSteps
    \/ FrameSteps
    \/ HandlerSteps
    \/ PublishEvent

Spec == Init /\ [][Next]_vars

\* Request handling alone, with no domain events published (no event changes
\* a reply), and with awaited handlers that settle.
RequestNext ==
    \/ SocketSteps
    \/ ManagerSteps
    \/ FrameSteps
    \/ HandlerSteps

RequestSpec == Init /\ [][RequestNext]_vars /\ WF_vars(HandlerSteps)

\* The registry and its timers alone: connections, closes (by the peer, by
\* the transport, or by the session on a frame that does not parse), the
\* heartbeat interval and the scheduled cleanup, which fire once due.
RegistryNext ==
    \/ SocketSteps
    \/ ManagerSteps
    \/ \E c \in Sockets : ParseFailure(c)

RegistrySpec ==
    /\ Init
    /\ [][RegistryNext]_vars
    /\ WF_vars(HeartbeatTick)
    /\ WF_vars(CleanupClients)

\* Version negotiation alone: connections, closes, the registry's timers, and
\* the two commands that call setSchemaVersion.
NegotiationNext ==
    \/ SocketSteps
    \/ ManagerSteps
    \/ \E c \in Sockets : ParseFailure(c)
    \/ \E c \in Sockets, msg \in NegotiationMessages(initialize, frames + 1) :
          Initialize(c, msg)
    \/ \E c \in Sockets, msg \in NegotiationMessages(setApiSchema, frames + 1) :
          SetApiSchema(c, msg)

NegotiationSpec == Init /\ [][NegotiationNext]_vars

\* Awaited handlers alone: connections, closes, the commands of a handler
\* family that suspend receiveMessage, and the handlers settling.
HandlerNext ==
    \/ SocketSteps
    \/ \E c \in Sockets, msg \in PlainMessages(Commands, frames + 1) :
          InstanceHandler(c, msg)
    \/ HandlerSteps

HandlerSpec == Init /\ [][HandlerNext]_vars

\* Liveness probes alone: connections, closes, pongs and checkAlive.
ProbeNext ==
    \/ SocketSteps
    \/ \E c \in Sockets : CheckAlive(c)

ProbeSpec == Init /\ [][ProbeNext]_vars

\* Dispatch alone. The commands: the built-in ones, one of each handler
\* family, one whose second piece is the name of a built-in command, one
\* whose first piece is, and one of no family.
DispatchCommands ==
    BuiltIn \cup {<<instance, ".", "doThing">> : instance \in Instance}
            \cup {<<"driver", ".", "initialize">>, <<"initialize", ".", "node">>,
                  <<"bogus", ".", "doThing">>}

\* receiveMessage on a frame that parsed to msg, whatever branch it takes.
Dispatched(c, msg) ==
    \/ Initialize(c, msg)
    \/ SetApiSchema(c, msg)
    \/ \E dumped \in {NoError, OtherError} : StartListening(c, msg, dumped)
    \/ UpdateLogConfig(c, msg)
    \/ \E dumped \in {NoError, OtherError} : GetLogConfig(c, msg, dumped)
    \/ InstanceHandler(c, msg)
    \/ UnknownCommand(c, msg)

DispatchNext ==
    \/ SocketSteps
    \/ \E c \in Sockets, msg \in PlainMessages(DispatchCommands, frames + 1) :
          Dispatched(c, msg)
    \/ HandlerSteps

DispatchSpec == Init /\ [][DispatchNext]_vars

\* startListening alone: connections and closes, startListening requests
\* whose snapshot is built or fails, and domain events.
SnapshotNext ==
    \/ SocketSteps
    \/ \E c \in Sockets, msg \in PlainMessages({startListening}, frames + 1),
          dumped \in {NoError} \cup ExternalErrors : StartListening(c, msg, dumped)
    \/ PublishEvent

SnapshotSpec == Init /\ [][SnapshotNext]_vars

\* The gateway's life cycle: start, connections and closes, hard resets,
\* the driver coming up again, destroy. The driver, the sockets and the
\* discovery service do what was asked of them in the end.
GatewayInit ==
    /\ NoSessions
    /\ gateway \in {NewGateway(destroyOnReset, dnssd) : destroyOnReset, dnssd \in BOOLEAN}
    /\ driver = NewDriver

GatewayEvents ==
    \/ \E n \in Ids : Listens(n)
    \/ DriverReady
    \/ HardResetResolves
    \/ \E n \in Ids : WsServerClosed(n)
    \/ \E n \in Ids : ServerClosed(n)
    \/ \E i \in 1 .. MaxDestroys + MaxResets : DiscoveryStepDone(i)

GatewayNext ==
    \/ SocketSteps
    \/ Start
    \/ Destroy
    \/ HardResetRequested
    \/ ConnectionWithoutManager
    \/ GatewayEvents

GatewaySpec == GatewayInit /\ [][GatewayNext]_vars /\ WF_vars(GatewayEvents)

\* ================================================================ claims
Registered(c) == c \in Range(clients)

\* Result messages sent to c that carry messageId id.
RepliesTo(c, id) ==
    SelectSeq(sent[c], LAMBDA m : m.type = "result" /\ m.messageId = id)

\* The event numbers sent to c, in send order.
EventsSent(c) ==
    LET ev == SelectSeq(sent[c], LAMBDA m : m.type = "event")
    IN [i \in 1 .. Len(ev) |-> ev[i].event]

\* Positions of sent[c] that hold the startListening reply (the snapshot).
SnapshotPositions(c) ==
    {i \in 1 .. Len(sent[c]) :
        sent[c][i].type = "result" /\ sent[c][i].success /\ sent[c][i].result = "state"}

\* C1: in every reachable state every session's stored schemaVersion lies in
\* [minSchemaVersion, maxSchemaVersion]; an out-of-range request never
\* leaves an out-of-range value stored.
C1_SchemaVersionInRange ==
    \A c \in Sockets :
        minSchemaVersion <= schemaVersion[c] /\ schemaVersion[c] <= maxSchemaVersion

\* Every accepted request has no reply while its handler is awaited and
\* exactly one afterwards, on its own session's socket and on no other.
RepliedOnce ==
    \A r \in accepted :
        /\ \A d \in Sockets \ {r.client} : Len(RepliesTo(d, r.messageId)) = 0
        /\ IF \E p \in awaiting : p.client = r.client /\ p.messageId = r.messageId
           THEN Len(RepliesTo(r.client, r.messageId)) = 0
           ELSE Len(RepliesTo(r.client, r.messageId)) = 1

\* C2: every request that parsed and carries a messageId gets exactly one
\* result message with that messageId on its session, never zero and never
\* two, whether handling succeeds or throws, for built-in and namespaced
\* commands alike; the reply of an awaited handler is eventually sent.
C2_ExactlyOneReply ==
    /\ []RepliedOnce
    /\ \A c \in Sockets, id \in 1 .. MaxRequests :
          ([client |-> c, messageId |-> id] \in accepted) ~> (Len(RepliesTo(c, id)) = 1)

\* A handler threw a ZWaveError and every frame of the run has been answered.
C2_Witness ==
    /\ Cardinality(accepted) = MaxRequests
    /\ awaiting = {}
    /\ \E c \in Sockets : \E i \in 1 .. Len(sent[c]) : sent[c][i].errorCode = "zwaveError"

\* C3: a session's receiveEvents is true only once its startListening reply
\* (the state snapshot) has been queued, and no event message is ever sent
\* to a session ahead of that reply.
C3_SnapshotBeforeEvents ==
    \A c \in Sockets :
        /\ receiveEvents[c] => SnapshotPositions(c) # {}
        /\ \A j \in 1 .. Len(sent[c]) :
              sent[c][j].type = "event" => \E i \in SnapshotPositions(c) : i < j

\* A session started listening after an event had been published, and has
\* been sent a later event.
C3_Witness ==
    \E c \in Sockets :
        /\ receiveEvents[c]
        /\ listenFrom[c] > 0
        /\ Len(EventsSent(c)) > 0

\* C4: a session with receiveEvents = false is sent no event; a session is
\* sent the events published after its flag became true, each once and in
\* publish order; and a session of the registry with receiveEvents = true
\* has been sent every one of them.
C4_EventsDelivered ==
    \A c \in Sockets :
        /\ ~receiveEvents[c] => EventsSent(c) = <<>>
        /\ \A i \in 1 .. Len(EventsSent(c)) : EventsSent(c)[i] = listenFrom[c] + i
        /\ (receiveEvents[c] /\ Registered(c)) =>
              Len(EventsSent(c)) = published - listenFrom[c]

\* One registered session has been sent every event of the run, another
\* registered session is not listening.
C4_Witness ==
    \E c, d \in Sockets :
        /\ c # d
        /\ Registered(c) /\ Len(EventsSent(c)) = MaxEvents
        /\ Registered(d) /\ ~receiveEvents[d]

\* C5: a heartbeat tick probes every registered, connected session (one
\* ping sent, outstandingPing set) unless the session left the previous
\* probe unacknowledged, in which case that tick, and not the one that
\* probed it, force-closes it.
C5_TickProbesEverySession ==
    [][HeartbeatTick =>
          \A c \in Range(clients) :
              isConnected(c) =>
                  IF outstandingPing[c]
                  THEN readyState'[c] # "OPEN"
                  ELSE /\ readyState'[c] = "OPEN"
                       /\ outstandingPing'[c]
                       /\ pings'[c] = pings[c] + 1]_vars

\* C6: at most one cleanup pass is pending at any time, one is pending
\* exactly while cleanupScheduled is set, every close notification leaves
\* exactly one pass pending however many came before it, and the pass that
\* runs leaves none pending.
C6_CoalescedCleanup ==
    /\ [](cleanupTimers <= 1 /\ (cleanupScheduled <=> cleanupTimers = 1))
    /\ [][(\E c \in Sockets : SocketClosed(c)) => cleanupTimers' = 1]_vars
    /\ [][CleanupClients => (cleanupTimers' = 0 /\ ~cleanupScheduled')]_vars

\* Two close notifications have arrived and a single pass is pending.
C6_Witness ==
    /\ Cardinality({c \in Sockets : readyState[c] = "CLOSED"}) >= 2
    /\ cleanupScheduled
    /\ cleanupTimers = 1

\* C7: a session whose transport is closing or closed is eventually out of
\* the registry, the heartbeat interval and the cleanup timeout firing once
\* due.
C7_ClosedSessionsRemoved ==
    \A c \in Sockets :
        (readyState[c] \in {"CLOSING", "CLOSED"}) ~> ~Registered(c)

\* A session whose close notification never came (its socket is still
\* closing) has been dropped while a session accepted before it stays
\* connected and registered.
C7_Witness ==
    \E c, d \in Sockets :
        /\ d < c
        /\ readyState[c] = "CLOSING" /\ ~Registered(c)
        /\ isConnected(d) /\ Registered(d)

\* C8: the Logging Forwarder is running exactly when some session of the
\* registry has receiveLogs = true.
C8_ForwarderRunsIffLogSession ==
    loggingEventForwarderStarted(CurrentLogging)
        <=> (\E c \in Range(clients) : receiveLogs[c])

\* C9: handling the built-in updateLogConfig command updates the driver's
\* log configuration, replies with success, and leaves a running Logging
\* Forwarder subscribed with the configuration just set.
C9_UpdateLogConfigReevaluatesForwarder ==
    [][\A c \in Sockets, msg \in LogConfigMessages(updateLogConfig, frames + 1) :
          UpdateLogConfig(c, msg) =>
              /\ driverLogConfig' = msg.config
              /\ sent'[c] = Append(sent[c], Message("result", msg.messageId, TRUE, "", "empty", 0))
              /\ ((loggingEventForwarder' /\ started') =>
                      forwarderLogConfig' = driverLogConfig')]_vars

\* C10: an initialize or setApiSchema request for a version outside
\* [minSchemaVersion, maxSchemaVersion] sends exactly one message, the error
\* result with errorCode schemaIncompatible and the request's messageId, on
\* the requesting session; no socket is closed and the registry is unchanged.
C10_IncompatibleSchemaRejected ==
    [][frames' = frames + 1 =>
        \A c \in Sockets, cmd \in {initialize, setApiSchema} :
          \A msg \in NegotiationMessages(cmd, frames + 1) :
          ( /\ msg.schemaVersion < minSchemaVersion \/ msg.schemaVersion > maxSchemaVersion
            /\ Initialize(c, msg) \/ SetApiSchema(c, msg) )
          => /\ sent' = [sent EXCEPT ![c] =
                            Append(@, [Message("result", msg.messageId, FALSE,
                                               "schemaIncompatible", "", 0)
                                          EXCEPT !.args = {<<"schemaId", "requested">>}])]
             /\ readyState' = readyState
             /\ clients' = clients]_vars

\* A session was refused a schema version and is still open and registered.
C10_Witness ==
    \E c \in Sockets :
        /\ \E i \in 1 .. Len(sent[c]) : sent[c][i].errorCode = "schemaIncompatible"
        /\ schemaVersion[c] > maxSchemaVersion
        /\ isConnected(c)
        /\ Registered(c)

\* C11: a command that is not built in and whose text before the first "."
\* is none of the seven namespaces is answered with the unknownCommand error
\* result and nothing else, and no handler call is left awaited.
C11_UnknownNamespaceRejected ==
    [][frames' = frames + 1 =>
        \A c \in Sockets, msg \in PlainMessages(Commands \ BuiltIn, frames + 1) :
          ( /\ split0(msg.command) \notin Instance
            /\ UnknownCommand(c, msg) \/ InheritedHandler(c, msg) \/ InstanceHandler(c, msg) )
          => /\ sent' = [sent EXCEPT ![c] =
                            Append(@, [Message("result", msg.messageId, FALSE,
                                               "unknownCommand", "", 0)
                                          EXCEPT !.args = {<<"command", "given">>}])]
             /\ awaiting' = awaiting]_vars

\* A frame that parsed is being handled in this step (the frame counter
\* moves and the step is not the parse failure of some session).
ParsedFrameStep == frames' = frames + 1 /\ ~(\E c \in Sockets : ParseFailure(c))

\* C12: handling a frame that parsed, whatever it parsed to, and resuming
\* after an awaited handler, whatever its outcome, lets no failure escape
\* receiveMessage, closes no socket and leaves the registry as it was.
C12_NoFailureEscapes ==
    [][(ParsedFrameStep \/ HandlerSteps) =>
          /\ unhandledRejection' = unhandledRejection
          /\ readyState' = readyState
          /\ clients' = clients]_vars

\* C13: a frame that fails to parse starts the close of its session's socket,
\* sends nothing on any socket, leaves schemaVersion, receiveEvents and
\* receiveLogs as they were, and leaves the registry as it was.
C13_ParseFailureClosesSilently ==
    [][\A c \in Sockets :
          ParseFailure(c) =>
              /\ readyState' = [readyState EXCEPT ![c] = "CLOSING"]
              /\ sent' = sent
              /\ schemaVersion' = schemaVersion
              /\ receiveEvents' = receiveEvents
              /\ receiveLogs' = receiveLogs
              /\ clients' = clients]_vars

\* The only session of the run negotiated a version, then sent a frame that
\* did not parse: two frames, one reply after the greeting, the socket
\* closing, the session still registered.
C13_Witness ==
    /\ frames = 2
    /\ readyState[1] = "CLOSING"
    /\ \A c \in Sockets \ {1} : readyState[c] = "NONE"
    /\ Len(sent[1]) = 2
    /\ schemaVersion[1] = maxSchemaVersion
    /\ Registered(1)

\* The error result the catch block owes request messageId for the failure
\* err, by the class of err.
IsErrorReplyFor(m, messageId, err) ==
    /\ m.type = "result" /\ ~m.success /\ m.messageId = messageId
    /\ m.result = "" /\ m.event = 0
    /\ IF err.class = "BaseError"
       THEN /\ m.errorCode = prop(err, "errorCode")
            /\ m.args \subseteq err.props
            /\ \A q \in err.props :
                  q \in m.args <=> q[1] \notin {"errorCode", "name", "message", "stack"}
            /\ m.zwaveErrorCode = "" /\ m.zwaveErrorMessage = ""
       ELSE IF err.class = "ZWaveError"
       THEN /\ m.errorCode = "zwaveError"
            /\ m.zwaveErrorCode = prop(err, "code")
            /\ m.zwaveErrorMessage = prop(err, "message")
            /\ m.args = {}
       ELSE /\ m.errorCode = "unknownError"
            /\ m.args = {}
            /\ m.zwaveErrorCode = "" /\ m.zwaveErrorMessage = ""

\* C14: when an awaited handler throws, exactly one message is sent, on the
\* requesting session: for a BaseError its errorCode with its other fields
\* as args, less name, message and stack; for a ZWaveError the errorCode
\* zwaveError with the error's code and message; for anything else
\* unknownError with empty args.
C14_FailureClassified ==
    [][awaiting' # awaiting =>
        \A p \in awaiting, err \in ExternalErrors :
            HandlerSettles(p, err) =>
                /\ Len(sent'[p.client]) = Len(sent[p.client]) + 1
                /\ SubSeq(sent'[p.client], 1, Len(sent[p.client])) = sent[p.client]
                /\ IsErrorReplyFor(sent'[p.client][Len(sent'[p.client])], p.messageId, err)
                /\ \A d \in Sockets \ {p.client} : sent'[d] = sent[d]]_vars

\* One handler threw a BaseError and its reply carries the error's extra
\* field only; another threw a ZWaveError and its reply carries the code and
\* the message.
C14_Witness ==
    \E c, d \in Sockets :
        /\ \E i \in 1 .. Len(sent[c]) :
              sent[c][i].errorCode = "handlerError" /\ sent[c][i].args = {<<"nodeId", "7">>}
        /\ \E i \in 1 .. Len(sent[d]) :
              /\ sent[d][i].errorCode = "zwaveError"
              /\ sent[d][i].zwaveErrorCode = "zwaveCode"
              /\ sent[d][i].zwaveErrorMessage = "zwaveMessage"

\* C15: a socket that was not accepted has been sent nothing; an accepted
\* one has the version greeting as its first outgoing message and no second
\* greeting after it, so every result and every event comes after the
\* greeting, and every request taken from a session finds it already sent.
C15_GreetingFirst ==
    /\ \A c \in Sockets :
          IF readyState[c] = "NONE"
          THEN sent[c] = <<>>
          ELSE /\ Len(sent[c]) >= 1
               /\ sent[c][1].type = "version"
               /\ \A i \in 2 .. Len(sent[c]) : sent[c][i].type # "version"
    /\ \A r \in accepted \cup awaiting :
          Len(sent[r.client]) >= 1 /\ sent[r.client][1].type = "version"

\* A session has been sent its greeting, then a result and an event.
C15_Witness ==
    \E c \in Sockets :
        /\ Len(sent[c]) >= 3
        /\ \E i \in 2 .. Len(sent[c]) : sent[c][i].type = "result"
        /\ \E i \in 2 .. Len(sent[c]) : sent[c][i].type = "event"

\* The Connection Manager as disconnect() leaves it.
TornDown ==
    /\ ~pingInterval
    /\ clients = <<>>
    /\ ~loggingEventForwarderStarted(CurrentLogging)

\* C16: disconnect() leaves no heartbeat timer, every session that was
\* registered with a socket that is no longer open, an empty registry and a
\* Logging Forwarder that is not running; and in such a state a call of
\* disconnect() changes nothing.
C16_DisconnectTearsDown ==
    /\ [][Disconnect =>
            /\ \A c \in Range(clients) : readyState'[c] # "OPEN"
            /\ TornDown']_vars
    /\ [](TornDown => ~ENABLED (Disconnect /\ vars' # vars))

\* Every socket of the run asked for logs and was closed by disconnect():
\* none got as far as CLOSED, the Logging Forwarder exists and is stopped.
C16_Witness ==
    /\ \A c \in Sockets : readyState[c] = "CLOSING" /\ receiveLogs[c]
    /\ loggingEventForwarder
    /\ TornDown

\* C17: on a hard reset request the gateway subscribes to the driver's
\* "driver ready" before it triggers the reset. So at every moment a reset
\* that has been triggered and not yet answered by a "driver ready" has its
\* listener subscribed, and the "driver ready" that answers a reset is
\* observed: the gateway's start() runs once for each such reset.
C17_ReadySignalNotMissed ==
    /\ [](driver.readyListeners = driver.unsignalled)
    /\ [][driver'.readyOwed < driver.readyOwed =>
              gateway'.starts = gateway.starts + driver.unsignalled]_vars

\* A "driver ready" that followed a hard reset has been observed.
C17_Witness ==
    /\ driver.resets > 0
    /\ driver.ready
    /\ driver.unsignalled = 0
    /\ gateway.starts > 1

\* The gateway emitted notification.
Emitted(notification) ==
    \E i \in 1 .. Len(gateway.emitted) : gateway.emitted[i] = notification

\* C18: a gateway configured to tear down on hard reset is destroyed by a
\* hard reset and not resumed: once it has emitted "hard reset" it owns no
\* listening socket and no ClientsController, and the "driver ready" that
\* answers the reset does not start it again.
C18_TeardownOnResetIsTerminal ==
    /\ [](gateway.destroyServerOnHardReset /\ Emitted("hard reset") =>
              /\ Listening(gateway) = {}
              /\ gateway.sockets = Undefined)
    /\ [][/\ gateway.destroyServerOnHardReset
          /\ driver.unsignalled > 0
          /\ driver'.readyOwed < driver.readyOwed
          => gateway'.starts = gateway.starts]_vars

\* C19: a gateway not configured to tear down on hard reset starts its
\* listening sequence again when the "driver ready" that answers the reset
\* arrives, and ends up listening: that step closes no session and sends
\* none a message, and the bind of the http server it created succeeds.
C19_RestartEndsUpListening ==
    /\ [][/\ ~gateway.destroyServerOnHardReset
          /\ driver.unsignalled > 0
          /\ driver'.readyOwed < driver.readyOwed
          => /\ gateway'.starts > gateway.starts
             /\ readyState' = readyState
             /\ sent' = sent]_vars
    /\ [][\A n \in gateway.restarts :
              /\ ~gateway.destroyServerOnHardReset
              /\ gateway.handle[n] = "binding"
              /\ gateway'.handle[n] # "binding"
              => gateway'.handle[n] = "listening"]_vars

\* A resource of the gateway exists: one of the five fields destroy() tests.
Exists(gw) ==
    \/ gw.sockets # Undefined
    \/ gw.wsServer # Undefined
    \/ gw.server # Undefined
    \/ gw.service
    \/ gw.responder

\* The number of destroy() calls suspended at the await named `at`.
Awaiting(gw, at) ==
    Cardinality({i \in 1 .. Len(gw.destroying) : gw.destroying[i].at = at})

\* C20: destroy() tears down in order, each step only for a resource that
\* exists and only once the step before it is complete. The websocket
\* server is closed when the sessions of this.sockets have been
\* disconnected and the field cleared; the http server is closed when
\* there is no websocket server or its "close" has just been observed; the
\* advertisement is ended when there is no http server or its "close" has
\* just been observed; the responder is shut down when the service is
\* gone. A destroy() called when none of the resources exists does nothing.
C20_DestroyOrdered ==
    /\ [][\A n \in Ids :
              /\ gateway.ws[n] = "open" /\ gateway'.ws[n] = "closing" =>
                     /\ gateway.wsServer = n
                     /\ gateway'.sockets = Undefined
                     /\ gateway.sockets # Undefined =>
                            \A c \in Range(clients) : readyState'[c] # "OPEN"
              /\ gateway.closeEvent[n] = "no" /\ gateway'.closeEvent[n] = "pending" =>
                     /\ gateway.server = n
                     /\ gateway'.wsServer = Undefined
                     /\ \/ gateway.wsServer = Undefined
                        \/ \E m \in Ids : gateway.ws[m] = "closing" /\ gateway'.ws[m] = "closed"]_vars
    /\ [][Awaiting(gateway', "serviceEnd") > Awaiting(gateway, "serviceEnd") =>
              /\ gateway.service
              /\ gateway'.server = Undefined
              /\ \/ gateway.server = Undefined
                 \/ \E m \in Ids : /\ gateway.closeEvent[m] = "pending"
                                   /\ gateway'.closeEvent[m] = "emitted"]_vars
    /\ [][Awaiting(gateway', "responderShutdown") > Awaiting(gateway, "responderShutdown") =>
              /\ gateway.responder
              /\ ~gateway'.service]_vars
    /\ [][gateway'.destroys > gateway.destroys /\ ~Exists(gateway) =>
              /\ gateway' = [gateway EXCEPT !.destroys = @ + 1]
              /\ UNCHANGED <<readyState, managerVars, sessionVars, driver>>]_vars

\* A gateway that advertised its service and had accepted a socket has been
\* destroyed by the host, every step of the teardown done.
C20_Witness ==
    /\ gateway.destroys > 0
    /\ gateway.starts > 0
    /\ gateway.enableDNSServiceDiscovery
    /\ \E c \in Sockets : gateway.connections[c] # Undefined /\ readyState[c] = "CLOSED"
    /\ \E n \in Ids : gateway.closeEvent[n] = "emitted"
    /\ ~Exists(gateway)
    /\ gateway.destroying = <<>>
    /\ "destroy" \notin gateway.faults

\* C21: start() refuses to start while the driver is not ready. As long as
\* the driver stays not ready no start() gets past its check, so no http
\* server, websocket server or ClientsController is created; the call that
\* is refused fails and changes nothing else of the gateway. And "listening"
\* is emitted only in the step in which an http server the gateway created
\* reports that it is listening.
C21_StartRefusedWhenNotReady ==
    /\ [][~driver.ready /\ ~driver'.ready =>
              /\ gateway'.starts = gateway.starts
              /\ gateway'.server \in {gateway.server, Undefined}
              /\ gateway'.wsServer \in {gateway.wsServer, Undefined}
              /\ gateway'.sockets \in {gateway.sockets, Undefined}]_vars
    /\ []["startNotReady" \in gateway'.faults \ gateway.faults =>
              /\ gateway' = [gateway EXCEPT !.faults = @ \cup {"startNotReady"}]
              /\ UNCHANGED <<readyState, managerVars, sessionVars, driver>>]_vars
    /\ [][(\E i \in Len(gateway.emitted) + 1 .. Len(gateway'.emitted) :
               gateway'.emitted[i] = "listening") =>
              \E n \in Ids : /\ gateway.handle[n] = "binding"
                             /\ gateway'.handle[n] = "listening"]_vars

\* A start() was refused, and a later start() got as far as "listening".
C21_Witness ==
    /\ "startNotReady" \in gateway.faults
    /\ Emitted("listening")
    /\ Listening(gateway) # {}

\* C22: a heartbeat tick and a cleanup pass each leave in the registry
\* exactly the sessions that were registered and connected before it, in
\* the same order. The tick calls close() on every session it drops and
\* touches no connected session; the pass touches no socket at all.
C22_RegistryKeepsConnected ==
    /\ [][HeartbeatTick =>
              /\ clients' = SelectSeq(clients, isConnected)
              /\ \A c \in Sockets :
                     IF Registered(c) /\ ~isConnected(c)
                     THEN readyState'[c] # "OPEN"
                     ELSE readyState'[c] = readyState[c]]_vars
    /\ [][CleanupClients =>
              /\ clients' = SelectSeq(clients, isConnected)
              /\ readyState' = readyState]_vars

\* A cleanup pass or tick has run: a session whose socket is closed is out
\* of the registry, a connected one is still in it, no pass is pending.
C22_Witness ==
    /\ cleanupTimers = 0
    /\ \E c, d \in Sockets :
          /\ readyState[c] = "CLOSED" /\ ~Registered(c)
          /\ isConnected(d) /\ Registered(d)

\* C23: checkAlive on a session whose outstandingPing is set closes its
\* socket and pings no more; on a session whose outstandingPing is clear it
\* sets outstandingPing, sends exactly one ping and closes nothing; and
\* outstandingPing, once set, is cleared only by the session's pong.
C23_CheckAliveProbes ==
    /\ [][\A c \in Sockets :
              CheckAlive(c) =>
                  IF outstandingPing[c]
                  THEN /\ readyState'[c] # "OPEN"
                       /\ pings' = pings
                       /\ outstandingPing' = outstandingPing
                  ELSE /\ outstandingPing' = [outstandingPing EXCEPT ![c] = TRUE]
                       /\ pings' = [pings EXCEPT ![c] = @ + 1]
                       /\ readyState' = readyState]_vars
    /\ [][\A c \in Sockets :
              outstandingPing[c] /\ ~outstandingPing'[c] => Pong(c)]_vars

\* One session was probed twice with no pong in between and is closing;
\* another answered its probe.
C23_Witness ==
    \E c, d \in Sockets :
        /\ outstandingPing[c] /\ pings[c] = 1 /\ readyState[c] = "CLOSING"
        /\ ~outstandingPing[d] /\ pings[d] = 1 /\ readyState[d] = "OPEN"

\* C24: a ClientsController has at most one heartbeat timer, and has one
\* exactly while pingInterval is set. The timer is created by the addSocket
\* that finds none; a tick and a cleanup pass leave it alone even when they
\* empty the registry; only disconnect() clears it.
C24_OneHeartbeatTimer ==
    /\ [](intervalTimers <= 1 /\ (pingInterval <=> intervalTimers = 1))
    /\ [][(\E c \in Sockets : AddSocket(c)) => intervalTimers' = 1]_vars
    /\ [][HeartbeatTick \/ CleanupClients =>
              /\ intervalTimers' = intervalTimers
              /\ pingInterval' = pingInterval]_vars
    /\ [][intervalTimers' < intervalTimers => Disconnect]_vars

\* Two sockets were accepted, both are out of the registry again, and the
\* timer the first one created is still there.
C24_Witness ==
    /\ \A c \in Sockets : readyState[c] \in {"CLOSING", "CLOSED"}
    /\ clients = <<>>
    /\ pingInterval
    /\ intervalTimers = 1

\* C25: a ClientsController subscribes its Event Forwarder to the driver's
\* event stream exactly once, in the first addSocket: it is subscribed once
\* exactly while eventForwarder is set, and once the field is set no step
\* (a further addSocket, a tick or pass that empties the registry, a
\* disconnect(), an addSocket after it) clears it or subscribes again.
C25_OneEventForwarder ==
    /\ [](eventSubscriptions <= 1 /\ (eventForwarder <=> eventSubscriptions = 1))
    /\ [][(\E c \in Sockets : AddSocket(c)) => eventSubscriptions' = 1]_vars
    /\ [][eventForwarder =>
              /\ eventForwarder'
              /\ eventSubscriptions' = eventSubscriptions]_vars

\* After a disconnect() (the heartbeat timer is cleared, the registry empty,
\* the socket it closed still closing) with a second socket yet to be
\* accepted: the one subscription is still there.
C25_Witness ==
    /\ ~pingInterval
    /\ clients = <<>>
    /\ readyState[1] = "CLOSING"
    /\ readyState[2] = "NONE"
    /\ eventForwarder
    /\ eventSubscriptions = 1

\* C26: a command that is not built in and whose text before the first "."
\* is one of the seven namespaces calls the handler family of exactly that
\* namespace, once, and sends nothing before the handler settles; a
\* built-in command calls no handler family.
C26_NamespaceDispatch ==
    [][frames' = frames + 1 =>
        \A c \in Sockets, msg \in PlainMessages(DispatchCommands, frames + 1) :
            Dispatched(c, msg) =>
                IF msg.command \in BuiltIn
                THEN awaiting' = awaiting
                ELSE Head(msg.command) \in Instance =>
                         LET call == [client |-> c, messageId |-> msg.messageId,
                                      instance |-> Head(msg.command)]
                         IN /\ call \notin awaiting
                            /\ awaiting' = awaiting \cup {call}
                            /\ sent' = sent]_vars

\* Handlers of two different families are awaited at once.
C26_Witness ==
    \E p, q \in awaiting :
        /\ p.instance = "multicast_group"
        /\ q.instance = "utils"

\* C27: when dumpState throws in startListening, the session is sent
\* exactly one message, the error result of that request, no other session
\* is sent anything, and receiveEvents stays as it was; and a session whose
\* receiveEvents is false is sent no event.
C27_SnapshotFailure ==
    /\ [][frames' = frames + 1 =>
            \A c \in Sockets, msg \in PlainMessages({startListening}, frames + 1),
               thrown \in ExternalErrors :
                StartListening(c, msg, thrown) =>
                    /\ \E reply \in {sent'[c][Len(sent'[c])]} :
                           /\ sent' = [sent EXCEPT ![c] = Append(@, reply)]
                           /\ reply.type = "result"
                           /\ reply.messageId = msg.messageId
                           /\ ~reply.success
                    /\ receiveEvents' = receiveEvents]_vars
    /\ [][PublishEvent =>
              \A c \in Sockets : ~receiveEvents[c] => sent'[c] = sent[c]]_vars

\* A session whose startListening failed is connected and registered, not
\* listening, and has been sent its error result and no event although
\* events were published since.
C27_Witness ==
    \E c \in Sockets :
        /\ isConnected(c) /\ Registered(c)
        /\ ~receiveEvents[c]
        /\ \E i \in 1 .. Len(sent[c]) : sent[c][i].type = "result" /\ ~sent[c][i].success
        /\ EventsSent(c) = <<>>
        /\ published = MaxEvents

\* C28: the gateway never runs its start sequence while resources of an
\* earlier start exist. At every moment at most one http server that the
\* gateway created has not been closed, start() has replaced no
\* ClientsController that was not disconnected first, and so none that
\* still had registered sessions or a running heartbeat timer.
C28_NoStartOverResources ==
    /\ Cardinality({n \in Ids : gateway.handle[n] # "none"
                                /\ gateway.closeEvent[n] = "no"}) <= 1
    /\ \A m \in gateway.overwritten : ~m.pingInterval /\ m.clients = 0
    /\ gateway.overwritten = {}

====
